---- MODULE Spec2Model ----
(***************************************************************************)
(* Sequence frame-range detection of tk_multi_loader/utils.py:             *)
(* sequence_range_from_path (regex + glob) and find_sequence_range         *)
(* (toolkit template first, path parsing as the fallback).                 *)
(*                                                                         *)
(* A path or file name is a sequence of one-character strings.  All names  *)
(* live in one directory, so a path is its basename.  The directory is a   *)
(* sequence of distinct names: its listing order, which glob keeps.  No    *)
(* name holds a wildcard character of glob (star, question mark, bracket). *)
(***************************************************************************)
EXTENDS Integers, Sequences, FiniteSets, TLC

VARIABLES
    path,       \* the path argument of the running call
    disk,       \* the directory: its names in listing order
    pc,         \* position of the running call
    template,   \* find_sequence_range: local "template"
    fields,     \* find_sequence_range: field names of template.get_fields(path)
    tfiles,     \* find_sequence_range: local "files"; each enumerated path is
                \* modelled by the set of its SEQ values ({} or {n})
    glob_path,  \* sequence_range_from_path: local "glob_path"
    files,      \* sequence_range_from_path: local "files" (the glob hits)
    frames,     \* local "frames" of either function
    result,     \* outcome of the outermost call
    exit,       \* return statement find_sequence_range left through
    calls,      \* number of calls made to each collaborator
    tank_error, \* whether template_from_path raised TankError
    form,       \* the prefix and extension the caller builds its paths from
    pending,    \* paths still to be resolved by the caller
    outcomes    \* glob pattern and outcome of the calls the caller completed

vars == <<path, disk, pc, template, fields, tfiles, glob_path, files, frames,
          result, exit, calls, tank_error, form, pending, outcomes>>

----------------------------------------------------------------------------
(* Bounds of the model *)

MaxTokenLen == 2        \* length of the frame token of an input path
MaxFiles == 2           \* names in the directory
MaxTemplatePaths == 2   \* paths that paths_from_template returns
MaxFrame == 2           \* largest SEQ value of a template-enumerated path
MaxFormPrefixLen == 2   \* length of the prefix of the three token forms

----------------------------------------------------------------------------
(* Characters and strings *)

DecimalDigits == {"0", "1", "2", "3", "4", "5", "6", "7", "8", "9"}

DigitValue(c) ==
    CASE c = "0" -> 0 [] c = "1" -> 1 [] c = "2" -> 2 [] c = "3" -> 3
      [] c = "4" -> 4 [] c = "5" -> 5 [] c = "6" -> 6 [] c = "7" -> 7
      [] c = "8" -> 8 [] c = "9" -> 9

\* F applied to the value of v, which is computed once.
With(v, F(_)) == CHOOSE y \in {F(x) : x \in {v}} : TRUE

SetMin(S) == CHOOSE m \in S : \A x \in S : m <= x
SetMax(S) == CHOOSE m \in S : \A x \in S : m >= x

\* All sequences over S of length at most n.
SeqsUpTo(S, n) == UNION {[1..k -> S] : k \in 0..n}

\* str.rfind(c), 1-based; 0 when c does not occur.
rfind(p, c) ==
    LET I == {i \in 1..Len(p) : p[i] = c}
    IN  IF I = {} THEN 0 ELSE SetMax(I)

\* os.path.splitext: the extension starts at the last dot of the last path
\* component, unless only dots precede it there.
splitext(p) ==
    LET sepIndex == rfind(p, "/")
        dotIndex == rfind(p, ".")
    IN  IF /\ dotIndex > sepIndex
           /\ \E i \in (sepIndex + 1)..(dotIndex - 1) : p[i] # "."
        THEN <<SubSeq(p, 1, dotIndex - 1), SubSeq(p, dotIndex, Len(p))>>
        ELSE <<p, <<>>>>

\* Whether int(s) succeeds for a captured group s.
IsDecimal(s) == s # <<>> /\ \A i \in 1..Len(s) : s[i] \in DecimalDigits

\* int(s) of a run of decimal digits: base 10, leading zeros insignificant.
RECURSIVE int(_)
int(s) ==
    IF s = <<>> THEN 0
    ELSE 10 * int(SubSeq(s, 1, Len(s) - 1)) + DigitValue(s[Len(s)])

----------------------------------------------------------------------------
(* frame_pattern = re.compile(r"([0-9#]+|[%]0\dd)$") *)

\* The offsets at which "$" matches: the end of the string, and just before
\* a newline that ends the string.
DollarOffsets(s) ==
    IF Len(s) > 0 /\ s[Len(s)] = "\n" THEN {Len(s) - 1, Len(s)} ELSE {Len(s)}

\* GroupMatches without the %0Nd alternative: r"([0-9#]+)$".
GroupMatches_NoPrintf(s, i, j) ==
    /\ i <= j
    /\ \A k \in i..j : s[k] \in DecimalDigits \cup {"#"}

\* s[i..j] is matched by one of the two alternatives of the group.
GroupMatches(s, i, j) ==
    \/ /\ i <= j
       /\ \A k \in i..j : s[k] \in DecimalDigits \cup {"#"}
    \/ /\ j = i + 3
       /\ s[i] = "%"
       /\ s[i + 1] = "0"
       /\ s[i + 2] \in DecimalDigits
       /\ s[i + 3] = "d"

NoMatch == [start |-> 0, end |-> 0]

\* re.search(frame_pattern, s): the leftmost match, the greedy run taken as
\* long as "$" allows.  NoMatch stands for None.
search(s) ==
    With({m \in (1..Len(s)) \X (1..Len(s)) :
             /\ m[2] \in DollarOffsets(s)
             /\ GroupMatches(s, m[1], m[2])},
         LAMBDA M :
            IF M = {} THEN NoMatch
            ELSE With(SetMin({m[1] : m \in M}),
                      LAMBDA i : [start |-> i,
                                  end |-> SetMax({m[2] : m \in
                                                    {x \in M : x[1] = i}})]))

\* match.group(1)
group1(s) == With(search(s), LAMBDA m : SubSeq(s, m.start, m.end))

\* re.sub(frame_pattern, "*", s): the match is replaced by the wildcard; the
\* pattern cannot match again in what follows the match.
sub(s) ==
    With(search(s),
         LAMBDA m :
            IF m = NoMatch THEN s
            ELSE SubSeq(s, 1, m.start - 1) \o <<"*">>
                   \o SubSeq(s, m.end + 1, Len(s)))

----------------------------------------------------------------------------
(* glob.glob on one directory *)

\* fnmatch of a name against a pattern whose only wildcard is "*".
RECURSIVE fnmatch(_, _)
fnmatch(name, pat) ==
    IF pat = <<>> THEN name = <<>>
    ELSE IF Head(pat) = "*"
         THEN \/ fnmatch(name, Tail(pat))
              \/ name # <<>> /\ fnmatch(Tail(name), pat)
         ELSE /\ name # <<>>
              /\ Head(name) = Head(pat)
              /\ fnmatch(Tail(name), Tail(pat))

ishidden(p) == p # <<>> /\ p[1] = "."

GlobHit(name, pattern) ==
    /\ fnmatch(name, pattern)
    /\ ishidden(pattern) \/ ~ishidden(name)

\* glob.glob(pattern): the names of the directory that match, in listing
\* order; names starting with a dot only match a pattern starting with a dot.
glob(pattern, listing) == SelectSeq(listing, LAMBDA f : GlobHit(f, pattern))

----------------------------------------------------------------------------
(* Outcomes of a call *)

None == [kind |-> "None", min |-> 0, max |-> 0]
Range(lo, hi) == [kind |-> "range", min |-> lo, max |-> hi]
Raised(e) == [kind |-> e, min |-> 0, max |-> 0]
Running == [kind |-> "running", min |-> 0, max |-> 0]

SeqRange(s) == {s[i] : i \in 1..Len(s)}

\* file_roots = [os.path.splitext(f)[0] for f in files]
\* frames = [int(re.search(frame_pattern, f).group(1)) for f in file_roots]
\* The comprehension stops at the first root that does not match
\* (None.group raises AttributeError) or whose group is no integer (int
\* raises ValueError).
FrameFails(f) ==
    With(splitext(f)[1],
         LAMBDA r : search(r) = NoMatch \/ ~IsDecimal(group1(r)))

FrameOf(f) == With(splitext(f)[1], LAMBDA r : int(group1(r)))

\* The indexes of the hits whose frame cannot be extracted.
BadHits(fs) == {i \in 1..Len(fs) : FrameFails(fs[i])}

FramesOf(fs) ==
    With(BadHits(fs),
         LAMBDA bad :
            With(IF bad = {} THEN Len(fs) ELSE SetMin(bad) - 1,
                 LAMBDA n : [i \in 1..n |-> FrameOf(fs[i])]))

\* MinMax returning (max, min).
MinMax_Swapped(fs) ==
    With(BadHits(fs),
         LAMBDA bad :
            IF bad # {}
            THEN IF search(splitext(fs[SetMin(bad)])[1]) = NoMatch
                 THEN Raised("AttributeError")
                 ELSE Raised("ValueError")
            ELSE IF fs = <<>>
                 THEN Raised("ValueError")
                 ELSE With(SeqRange(FramesOf(fs)),
                           LAMBDA S : Range(SetMax(S), SetMin(S))))

\* return min(frames), max(frames), or the exception that the comprehension
\* raised; min of an empty list raises ValueError.
MinMax(fs) ==
    With(BadHits(fs),
         LAMBDA bad :
            IF bad # {}
            THEN IF search(splitext(fs[SetMin(bad)])[1]) = NoMatch
                 THEN Raised("AttributeError")
                 ELSE Raised("ValueError")
            ELSE IF fs = <<>>
                 THEN Raised("ValueError")
                 ELSE With(SeqRange(FramesOf(fs)),
                           LAMBDA S : Range(SetMin(S), SetMax(S))))

\* sequence_range_from_path(path) against a directory, as one function.
sequence_range_from_path(p, listing) ==
    LET root == splitext(p)[1]
        ext == splitext(p)[2]
    IN  IF search(root) = NoMatch THEN None
        ELSE MinMax(glob(sub(root) \o ext, listing))

----------------------------------------------------------------------------
(* Inputs *)

Exts == {<<>>, <<".", "e">>}

Prefixes == {<<>>, <<"a">>}

\* An input path is prefix + frame token + optional newline + extension; the
\* token is any run of digits and hashes (the empty one included), or %04d.
TokenChars == {"0", "1", "#"}

Tokens == SeqsUpTo(TokenChars, MaxTokenLen) \cup {<<"%", "0", "4", "d">>}

InputPaths ==
    {p \o t \o n \o e : p \in Prefixes, t \in Tokens,
                          n \in {<<>>, <<"\n">>}, e \in Exts}

\* Names a directory may hold: frames with and without leading zeros, names
\* without a frame, and names whose token is a hash.
DiskTokens == {<<>>, <<"1">>, <<"0", "1">>, <<"1", "0">>, <<"#">>}

DiskNames ==
    {p \o t \o e : p \in Prefixes, t \in DiskTokens, e \in Exts} \ {<<>>}

\* The listings of at most n distinct names of S.
Listings(S, n) ==
    {l \in SeqsUpTo(S, n) : \A i, j \in 1..Len(l) : i # j => l[i] # l[j]}

\* Inputs of find_sequence_range.
FsrPaths ==
    {p \o t \o e : p \in Prefixes, t \in SeqsUpTo({"1", "#"}, 1), e \in Exts}

FsrDiskNames ==
    {<<"a", "1", ".", "e">>, <<"a", "1", "0", ".", "e">>, <<"a", ".", "e">>,
     <<"1", ".", "e">>, <<"a", "0", "1">>}

\* What template.get_fields(file).get("SEQ") gives for an enumerated path:
\* {} for None, {n} for the frame n.
SeqValues == {{}} \cup {{n} : n \in 0..MaxFrame}

NoCalls ==
    [template_from_path |-> 0, get_fields |-> 0, paths_from_template |-> 0,
     sequence_range_from_path |-> 0, glob |-> 0]

NoForm == [prefix |-> <<>>, ext |-> <<>>]

InitLocals ==
    /\ template = "unset"
    /\ fields = {}
    /\ tfiles = <<>>
    /\ glob_path = <<>>
    /\ files = <<>>
    /\ frames = <<>>
    /\ result = Running
    /\ exit = "none"
    /\ tank_error = FALSE
    /\ outcomes = <<>>

----------------------------------------------------------------------------
(* sequence_range_from_path, lines 354-379 *)

\* Lines 354-368: split, search, return None or build the glob pattern.
SRFP_Search ==
    /\ pc = "sequence_range_from_path"
    /\ LET root == splitext(path)[1]
           ext == splitext(path)[2]
       IN  IF search(root) = NoMatch
           THEN /\ result' = None
                /\ pc' = "done"
                /\ UNCHANGED glob_path
           ELSE /\ glob_path' = sub(root) \o ext
                /\ pc' = "glob"
                /\ UNCHANGED result
    /\ calls' = [calls EXCEPT !.sequence_range_from_path = @ + 1]
    /\ UNCHANGED <<path, disk, template, fields, tfiles, files, frames, exit,
                   tank_error, form, pending, outcomes>>

\* Line 369: files = glob.glob(glob_path)
SRFP_Glob ==
    /\ pc = "glob"
    /\ files' = glob(glob_path, disk)
    /\ calls' = [calls EXCEPT !.glob = @ + 1]
    /\ pc' = "extract"
    /\ UNCHANGED <<path, disk, template, fields, tfiles, glob_path, frames,
                   result, exit, tank_error, form, pending, outcomes>>

\* Lines 373-379: the frame of every hit, then min and max.
SRFP_Extract ==
    /\ pc = "extract"
    /\ frames' = FramesOf(files)
    /\ result' = MinMax(files)
    /\ pc' = "done"
    /\ UNCHANGED <<path, disk, template, fields, tfiles, glob_path, files,
                   exit, calls, tank_error, form, pending, outcomes>>

InitPattern ==
    /\ path \in InputPaths
    /\ disk \in Listings(DiskNames, MaxFiles)
    /\ pc = "sequence_range_from_path"
    /\ calls = NoCalls
    /\ form = NoForm
    /\ pending = <<>>
    /\ InitLocals

NextPattern == SRFP_Search \/ SRFP_Glob \/ SRFP_Extract

SpecPattern == InitPattern /\ [][NextPattern]_vars

----------------------------------------------------------------------------
(* find_sequence_range, lines 393-426 *)

\* FSR_TemplateFromPath with "except TankError: return None".
FSR_TemplateFromPath_ErrorIsAbsent ==
    /\ pc = "find_sequence_range"
    /\ \E outcome \in {"TankError", "None", "Template"} :
         /\ tank_error' = (outcome = "TankError")
         /\ template' = IF outcome = "Template" THEN "Template" ELSE "None"
         /\ CASE outcome = "Template" ->
                   pc' = "get_fields" /\ UNCHANGED <<exit, result>>
              [] outcome = "None" ->
                   /\ pc' = "sequence_range_from_path"
                   /\ exit' = "PatternFallback"
                   /\ UNCHANGED result
              [] outcome = "TankError" ->
                   pc' = "done" /\ exit' = "Absent" /\ result' = None
    /\ calls' = [calls EXCEPT !.template_from_path = @ + 1]
    /\ UNCHANGED <<path, disk, fields, tfiles, glob_path, files, frames,
                   form, pending, outcomes>>

\* Lines 394-404: template = tk.template_from_path(path), TankError
\* swallowed; without a template the call returns what path parsing gives.
FSR_TemplateFromPath ==
    /\ pc = "find_sequence_range"
    /\ \E outcome \in {"TankError", "None", "Template"} :
         /\ tank_error' = (outcome = "TankError")
         /\ template' = IF outcome = "Template" THEN "Template" ELSE "None"
         /\ IF outcome = "Template"
            THEN pc' = "get_fields" /\ UNCHANGED exit
            ELSE pc' = "sequence_range_from_path" /\ exit' = "PatternFallback"
    /\ calls' = [calls EXCEPT !.template_from_path = @ + 1]
    /\ UNCHANGED <<path, disk, fields, tfiles, glob_path, files, frames,
                   result, form, pending, outcomes>>

\* FSR_GetFields with the test inverted: if "SEQ" in fields.
FSR_GetFields_Inverted ==
    /\ pc = "get_fields"
    /\ \E fs \in {{"name"}, {"name", "SEQ"}} :
         /\ fields' = fs
         /\ IF "SEQ" \in fs
            THEN pc' = "sequence_range_from_path" /\ exit' = "PatternFallback"
            ELSE pc' = "paths_from_template" /\ UNCHANGED exit
    /\ calls' = [calls EXCEPT !.get_fields = @ + 1]
    /\ UNCHANGED <<path, disk, template, tfiles, glob_path, files, frames,
                   result, tank_error, form, pending, outcomes>>

\* Lines 407-411: fields = template.get_fields(path); without "SEQ" the
\* call returns what path parsing gives.
FSR_GetFields ==
    /\ pc = "get_fields"
    /\ \E fs \in {{"name"}, {"name", "SEQ"}} :
         /\ fields' = fs
         /\ IF "SEQ" \notin fs
            THEN pc' = "sequence_range_from_path" /\ exit' = "PatternFallback"
            ELSE pc' = "paths_from_template" /\ UNCHANGED exit
    /\ calls' = [calls EXCEPT !.get_fields = @ + 1]
    /\ UNCHANGED <<path, disk, template, tfiles, glob_path, files, frames,
                   result, tank_error, form, pending, outcomes>>

\* Line 413: files = tk.paths_from_template(template, fields, ["SEQ", "eye"])
FSR_PathsFromTemplate ==
    /\ pc = "paths_from_template"
    /\ \E fs \in SeqsUpTo(SeqValues, MaxTemplatePaths) : tfiles' = fs
    /\ calls' = [calls EXCEPT !.paths_from_template = @ + 1]
    /\ pc' = "collect"
    /\ UNCHANGED <<path, disk, template, fields, glob_path, files, frames,
                   result, exit, tank_error, form, pending, outcomes>>

\* Lines 416-421: the SEQ value of every enumerated path that has one.
CollectFrames(fs) ==
    LET have == SelectSeq(fs, LAMBDA v : v # {})
    IN  [i \in 1..Len(have) |-> CHOOSE n \in have[i] : TRUE]

\* FSR_Collect with "if not frames: return sequence_range_from_path(path)".
FSR_Collect_FallsBack ==
    /\ pc = "collect"
    /\ frames' = CollectFrames(tfiles)
    /\ IF frames' = <<>>
       THEN /\ pc' = "sequence_range_from_path"
            /\ exit' = "PatternFallback"
            /\ UNCHANGED result
       ELSE /\ result' = Range(SetMin(SeqRange(frames')),
                               SetMax(SeqRange(frames')))
            /\ exit' = "Resolved"
            /\ pc' = "done"
    /\ calls' = [calls EXCEPT !.get_fields = @ + Len(tfiles)]
    /\ UNCHANGED <<path, disk, template, fields, tfiles, glob_path, files,
                   tank_error, form, pending, outcomes>>

\* FSR_Collect that enumerates a second time when the first enumeration
\* gave no frame.
FSR_Collect_RetriesOnce ==
    /\ pc = "collect"
    /\ frames' = CollectFrames(tfiles)
    /\ IF frames' = <<>> /\ calls.paths_from_template < 2
       THEN pc' = "paths_from_template" /\ UNCHANGED <<result, exit>>
       ELSE /\ pc' = "done"
            /\ IF frames' = <<>>
               THEN result' = None /\ exit' = "Absent"
               ELSE /\ result' = Range(SetMin(SeqRange(frames')),
                                       SetMax(SeqRange(frames')))
                    /\ exit' = "Resolved"
    /\ calls' = [calls EXCEPT !.get_fields = @ + Len(tfiles)]
    /\ UNCHANGED <<path, disk, template, fields, tfiles, glob_path, files,
                   tank_error, form, pending, outcomes>>

\* Lines 416-426: collect the frames; None without any, else (min, max).
FSR_Collect ==
    /\ pc = "collect"
    /\ frames' = CollectFrames(tfiles)
    /\ IF frames' = <<>>
       THEN result' = None /\ exit' = "Absent"
       ELSE /\ result' = Range(SetMin(SeqRange(frames')),
                               SetMax(SeqRange(frames')))
            /\ exit' = "Resolved"
    /\ calls' = [calls EXCEPT !.get_fields = @ + Len(tfiles)]
    /\ pc' = "done"
    /\ UNCHANGED <<path, disk, template, fields, tfiles, glob_path, files,
                   tank_error, form, pending, outcomes>>

Init ==
    /\ path \in FsrPaths
    /\ disk \in Listings(FsrDiskNames, MaxFiles)
    /\ pc = "find_sequence_range"
    /\ calls = NoCalls
    /\ form = NoForm
    /\ pending = <<>>
    /\ InitLocals

Next ==
    \/ FSR_TemplateFromPath
    \/ FSR_GetFields
    \/ FSR_PathsFromTemplate
    \/ FSR_Collect
    \/ SRFP_Search
    \/ SRFP_Glob
    \/ SRFP_Extract

Spec == Init /\ [][Next]_vars

\* A call runs to its return: nothing preempts or suspends it.
FairSpec == Spec /\ WF_vars(Next)

----------------------------------------------------------------------------
(* The three forms of one frame token, resolved one after the other        *)
(* against the same directory                                              *)

FormPrefixChars == {"a", "1", "#", "."}

FormDigits == {<<"0", "0", "0", "1">>, <<"0", "0", "1", "0">>}

Printf04d == <<"%", "0", "4", "d">>

Hashes4 == <<"#", "#", "#", "#">>

\* The caller takes the outcome of the call that returned and calls
\* sequence_range_from_path on the next form.
NextCall ==
    /\ pc = "done"
    /\ outcomes' = Append(outcomes, [glob_path |-> glob_path,
                                      globbed |-> calls.glob > 0,
                                      result |-> result])
    /\ IF pending # <<>>
       THEN /\ path' = Head(pending)
            /\ pending' = Tail(pending)
            /\ pc' = "sequence_range_from_path"
            /\ glob_path' = <<>>
            /\ files' = <<>>
            /\ frames' = <<>>
            /\ result' = Running
            /\ calls' = NoCalls
       ELSE /\ pc' = "finished"
            /\ UNCHANGED <<path, pending, glob_path, files, frames, result,
                           calls>>
    /\ UNCHANGED <<disk, template, fields, tfiles, exit, tank_error, form>>

InitForms ==
    /\ form \in [prefix : SeqsUpTo(FormPrefixChars, MaxFormPrefixLen),
                 ext : Exts]
    /\ path = form.prefix \o Printf04d \o form.ext
    /\ \E d \in FormDigits :
         pending = <<form.prefix \o Hashes4 \o form.ext,
                     form.prefix \o d \o form.ext>>
    /\ disk \in Listings(DiskNames, 1)
    /\ pc = "sequence_range_from_path"
    /\ calls = NoCalls
    /\ InitLocals

NextForms == SRFP_Search \/ SRFP_Glob \/ SRFP_Extract \/ NextCall

SpecForms == InitForms /\ [][NextForms]_vars

----------------------------------------------------------------------------
(* Properties *)

Stem(p) == splitext(p)[1]
Ext(p) == splitext(p)[2]

\* The length of the run of decimal digits that ends s.
DigitRun(s) ==
    SetMax({n \in 0..Len(s) :
               \A k \in (Len(s) - n + 1)..Len(s) : s[k] \in DecimalDigits})

\* What precedes the run of decimal digits that ends the stem of p.
DigitPrefix(p) == SubSeq(Stem(p), 1, Len(Stem(p)) - DigitRun(Stem(p)))

\* Whether s ends in a %0Nd token.
EndsInPrintf(s) ==
    /\ Len(s) >= 4
    /\ s[Len(s) - 3] = "%"
    /\ s[Len(s) - 2] = "0"
    /\ s[Len(s) - 1] \in DecimalDigits
    /\ s[Len(s)] = "d"

\* Whether the stem of p ends in a frame token: a digit, a hash or %0Nd.
EndsInToken(s) ==
    \/ s # <<>> /\ s[Len(s)] \in DecimalDigits \cup {"#"}
    \/ EndsInPrintf(s)

\* The frames of the sequence of p in the directory: the names that are the
\* prefix of p, a run of decimal digits and the extension of p.
SequenceFrames(p, listing) ==
    {int(SubSeq(f, Len(DigitPrefix(p)) + 1, Len(f) - Len(Ext(p)))) :
        f \in {g \in SeqRange(listing) :
                 \E n \in 1..Len(g) :
                    /\ Len(g) = Len(DigitPrefix(p)) + n + Len(Ext(p))
                    /\ SubSeq(g, 1, Len(DigitPrefix(p))) = DigitPrefix(p)
                    /\ IsDecimal(SubSeq(g, Len(DigitPrefix(p)) + 1,
                                        Len(DigitPrefix(p)) + n))
                    /\ SubSeq(g, Len(DigitPrefix(p)) + n + 1, Len(g))
                         = Ext(p)}}

\* C1: for a path whose stem ends in a run of decimal digits,
\* sequence_range_from_path returns (min, max) of the integer frames of
\* exactly the names on disk made of the path's prefix, a run of digits and
\* the path's extension (stated for directories that hold the path itself).
C1_RangeOfTheSequence ==
    ( /\ pc = "done"
      /\ DigitRun(Stem(path)) > 0
      /\ path \in SeqRange(disk) )
    => result = Range(SetMin(SequenceFrames(path, disk)),
                      SetMax(SequenceFrames(path, disk)))

\* C5: for a path whose stem does not end in a decimal digit, a hash or a
\* %0Nd token, sequence_range_from_path returns None and issues no glob.
C5_NoTokenIsAbsent ==
    (pc = "done" /\ ~EndsInToken(Stem(path)))
    => (result = None /\ calls.glob = 0)

\* C7: sequence_range_from_path returns None or a (min, max) pair, and None
\* when the path carries a frame token but no name on disk matches the glob
\* derived from it.
C7_NoHitIsAbsent ==
    pc = "done"
    => /\ result.kind \in {"None", "range"}
       /\ (calls.glob > 0 /\ files = <<>>) => result = None

\* C9: every glob hit has a stem that matches the frame pattern again with
\* a group of decimal digits only, so the frame extraction never fails.
C9_HitsAreFrames ==
    pc \in {"extract", "done"}
    => \A i \in 1..Len(files) :
          /\ search(Stem(files[i])) # NoMatch
          /\ IsDecimal(group1(Stem(files[i])))

----------------------------------------------------------------------------

\* The SEQ values of the paths that paths_from_template returned.
TemplateFrames == UNION SeqRange(tfiles)

TemplateWithSEQ == template = "Template" /\ "SEQ" \in fields

\* C2: when the template of the path has a SEQ field, the result is
\* computed from the SEQ values of the template-enumerated paths only, and
\* neither sequence_range_from_path nor glob is ever invoked.
C2_TemplatePrecedence ==
    TemplateWithSEQ
    => /\ calls.sequence_range_from_path = 0
       /\ calls.glob = 0
       /\ pc \notin {"sequence_range_from_path", "glob", "extract"}
       /\ pc = "done" =>
            /\ calls.paths_from_template = 1
            /\ IF TemplateFrames = {}
               THEN result = None
               ELSE /\ result.kind = "range"
                    /\ result.min \in TemplateFrames
                    /\ result.max \in TemplateFrames
                    /\ \A v \in TemplateFrames :
                         result.min <= v /\ v <= result.max

\* The path also has a parseable frame number, and globbing gives another
\* range than the template enumeration.
C2_Witness ==
    /\ pc = "done"
    /\ TemplateWithSEQ
    /\ DigitRun(Stem(path)) > 0
    /\ result.kind = "range"
    /\ sequence_range_from_path(path, disk).kind = "range"
    /\ sequence_range_from_path(path, disk) # result

\* C3: when classification fails (TankError, or no template) or the
\* template's fields lack SEQ, the outcome is that of
\* sequence_range_from_path on the same path and directory, and
\* paths_from_template is never called.
C3_FallbackIsPatternResolution ==
    (template = "None" \/ (template = "Template" /\ pc # "get_fields"
                             /\ "SEQ" \notin fields))
    => /\ calls.paths_from_template = 0
       /\ pc = "done" => result = sequence_range_from_path(path, disk)

C3_Witness ==
    /\ pc = "done"
    /\ template = "Template"
    /\ "SEQ" \notin fields
    /\ result.kind = "range"
    /\ result.min < result.max

\* C4: when the template has a SEQ field but the enumeration gives no
\* usable frame, the result is None and pattern resolution is not tried,
\* whatever it would return.
C4_EmptyEnumerationIsAbsent ==
    (pc = "done" /\ TemplateWithSEQ /\ TemplateFrames = {})
    => /\ result = None
       /\ exit = "Absent"
       /\ calls.sequence_range_from_path = 0
       /\ calls.glob = 0

C4_Witness ==
    /\ pc = "done"
    /\ TemplateWithSEQ
    /\ tfiles # <<>>
    /\ TemplateFrames = {}
    /\ sequence_range_from_path(path, disk).kind = "range"

\* C8: a returned range has min <= max, both values are frames of
\* enumerated files (glob hits, or template-enumerated paths), and with one
\* enumerated frame min = max.
C8_RangeIsOrdered ==
    (pc = "done" /\ result.kind = "range")
    => /\ result.min <= result.max
       /\ result.min \in SeqRange(frames)
       /\ result.max \in SeqRange(frames)
       /\ exit = "PatternFallback" =>
            /\ Len(frames) = Len(files)
            /\ \A i \in 1..Len(files) :
                 /\ files[i] \in SeqRange(disk)
                 /\ frames[i] = FrameOf(files[i])
       /\ exit = "Resolved" => SeqRange(frames) = TemplateFrames
       /\ Cardinality(SeqRange(frames)) = 1 => result.min = result.max

C8_Witness ==
    /\ pc = "done"
    /\ exit = "PatternFallback"
    /\ result.kind = "range"
    /\ result.min < result.max

Rank(p) ==
    CASE p = "find_sequence_range" -> 0
      [] p = "get_fields" -> 1
      [] p = "paths_from_template" -> 2
      [] p = "collect" -> 3
      [] p = "sequence_range_from_path" -> 4
      [] p = "glob" -> 5
      [] p = "extract" -> 6
      [] p = "done" -> 7

C10_Shape ==
    /\ calls.template_from_path <= 1
    /\ calls.paths_from_template <= 1
    /\ calls.sequence_range_from_path <= 1
    /\ calls.glob <= 1
    /\ pc # "find_sequence_range" => calls.template_from_path = 1
    /\ calls.paths_from_template > 0 => calls.sequence_range_from_path = 0
    /\ pc = "done" =>
         /\ exit \in {"PatternFallback", "Resolved", "Absent"}
         /\ exit = "PatternFallback" <=> calls.sequence_range_from_path = 1
         /\ exit = "Resolved" => result.kind = "range"
         /\ exit = "Absent" => result = None

\* C10: a call of find_sequence_range is an acyclic run: one template
\* attempt first, the pattern resolver at most once and never after the
\* enumeration, no step taken twice, and the call ends in pattern fallback,
\* resolved or absent.
C10_AcyclicRun ==
    /\ []C10_Shape
    /\ [][Rank(pc') > Rank(pc)]_vars
    /\ <>(pc = "done")

C10_Witness ==
    /\ pc = "done"
    /\ exit = "Resolved"
    /\ calls.template_from_path = 1
    /\ calls.paths_from_template = 1

----------------------------------------------------------------------------

FormGlob == form.prefix \o <<"*">> \o form.ext

FormsAgree ==
    \A i \in 1..Len(outcomes) :
       /\ outcomes[i].glob_path = FormGlob
       /\ outcomes[i].globbed
       /\ outcomes[i].result = outcomes[1].result

\* The extension is the one os.path.splitext splits off the three paths.
FormExtIsSplit ==
    splitext(form.prefix \o Hashes4 \o form.ext)
      = <<form.prefix \o Hashes4, form.ext>>

\* The prefix does not end in a decimal digit or a hash.
FormPrefixIsClosed ==
    form.prefix # <<>> =>
       form.prefix[Len(form.prefix)] \notin DecimalDigits \cup {"#"}

\* C6 as claimed: whatever the prefix, prefix%04dext, prefix####ext and
\* prefix<four digits>ext give the glob pattern prefix*ext and the same
\* outcome against the same directory.
C6_FormsAgreeForAnyPrefix ==
    (pc = "finished" /\ FormExtIsSplit) => FormsAgree

\* C6, amended: for a prefix that does not end in a decimal digit or a
\* hash, prefix%04dext, prefix####ext and prefix<four digits>ext give the
\* glob pattern prefix*ext and the same outcome against the same directory.
C6_FormsAgree ==
    (pc = "finished" /\ FormExtIsSplit /\ FormPrefixIsClosed) => FormsAgree

C6_Witness ==
    /\ pc = "finished"
    /\ FormExtIsSplit
    /\ FormPrefixIsClosed
    /\ form.prefix # <<>>
    /\ Len(outcomes) = 3
    /\ outcomes[3].result.kind = "range"

====
